---- MODULE Spec2Model ----
(***************************************************************************)
(* Model of the two numerical routines of src/src/imageOp.py:              *)
(*   crop_image_using_mask  - padded, clamped bounding box around a label  *)
(*   get_resize_factor / resample_image - resampling to a target spacing   *)
(* Every vector of the source (numpy arrays, tuples, lists with one entry  *)
(* per axis) is a function over Axes.                                      *)
(***************************************************************************)
EXTENDS Integers, Sequences, FiniteSets, TLC

VARIABLES
    img_dim,        \* crop: img.GetSize(), extent per axis
    bbox,           \* crop: GetBoundingBox(1) as [start |-> .., size |-> ..]
    padding,        \* crop: c.CROPPED_PADDING
    crop_pc,        \* crop: "ready" | "done" | "failed"
    roi,            \* crop: the (index, size) handed to RegionOfInterest, or NoBox
    sitk_img,       \* resample: the image read from nifti_file
    target_spacing, \* resample: the caller's target spacing, one entry per axis
    rs_pc,          \* resample: "ready" | "done" | "failed"
    kernel,         \* resample: whether resize was invoked, and its output_shape
    error,          \* resample: the exception that ended the call, or "none"
    sitk_out        \* resample: the returned image, or NoImage

crop_vars == <<img_dim, bbox, padding, crop_pc, roi>>
rs_vars == <<sitk_img, target_spacing, rs_pc, kernel, error, sitk_out>>
vars == <<crop_vars, rs_vars>>

\* bbox[0:3] / bbox[3:] : three spatial axes
NumAxes == 3
Axes == 1..NumAxes

\* ---- bounds of the explored inputs ----
MaxDim == 4
MaxPad == 2
MaxSpacing == 2
MaxTarget == 3

NoBox == [index |-> [a \in Axes |-> 0], size |-> [a \in Axes |-> 0]]

Zeros == [a \in Axes |-> 0]
Ones == [a \in Axes |-> 1]
IdentityDirection == <<1, 0, 0, 0, 1, 0, 0, 0, 1>>

NoImage == [size |-> Zeros, spacing |-> Zeros, origin |-> Zeros,
            direction |-> <<0, 0, 0, 0, 0, 0, 0, 0, 0>>]
NotCalled == [called |-> FALSE, output_shape |-> Zeros]

\* no resample call in progress (the state of the crop specification)
IdleResample ==
    /\ sitk_img = NoImage
    /\ target_spacing = Zeros
    /\ rs_pc = "idle"
    /\ kernel = NotCalled
    /\ error = "none"
    /\ sitk_out = NoImage

\* no crop call in progress (the state of the resample specification)
IdleCrop ==
    /\ img_dim = Zeros
    /\ bbox = [start |-> Zeros, size |-> Zeros]
    /\ padding = 0
    /\ crop_pc = "idle"
    /\ roi = NoBox

(***************************************************************************)
(* crop_image_using_mask, lines 233-245                                    *)
(***************************************************************************)

\* new_index = start_index - c.CROPPED_PADDING
ExpandIndex(start_index, pad) == [a \in Axes |-> start_index[a] - pad]

\* mutants of ExpandSize: the size is not grown / is grown on both sides
ExpandSizeNoGrowth(size, pad) == [a \in Axes |-> size[a]]

ExpandSizeBothSides(size, pad) == [a \in Axes |-> size[a] + 2 * pad]

\* new_size = size + c.CROPPED_PADDING
ExpandSize(size, pad) == [a \in Axes |-> size[a] + pad]

\* mutant of LowerBounds: strict comparison
LowerBoundsStrict(new_index) == [a \in Axes |-> new_index[a] < 0]

\* lower_bounds = new_index <= 0
LowerBounds(new_index) == [a \in Axes |-> new_index[a] <= 0]

\* mutant of ClampLower: the lower clamp is left out
ClampLowerSkipped(new_index, start_index) == new_index

\* new_index[lower_bounds] = start_index[lower_bounds]
ClampLower(new_index, start_index) ==
    [a \in Axes |-> IF LowerBounds(new_index)[a] THEN start_index[a]
                                                 ELSE new_index[a]]

\* upper_bounds = new_index + new_size
UpperBounds(new_index, new_size) == [a \in Axes |-> new_index[a] + new_size[a]]

\* out_of_bounds = upper_bounds >= img_dim
OutOfBounds(upper_bounds, dim) == [a \in Axes |-> upper_bounds[a] >= dim[a]]

\* mutant of PaddingValue: the final start is left out of the subtraction
PaddingValueFromTightStart(dim, new_index, size) ==
    [a \in Axes |-> dim[a] - size[a]]

\* padding_value = img_dim[out_of_bounds] - (new_index[out_of_bounds] + size[out_of_bounds])
PaddingValue(dim, new_index, size) ==
    [a \in Axes |-> dim[a] - (new_index[a] + size[a])]

\* new_size[out_of_bounds] = size[out_of_bounds] + padding_value
ClampUpper(new_size, size, new_index, dim) ==
    LET out_of_bounds == OutOfBounds(UpperBounds(new_index, new_size), dim)
    IN  [a \in Axes |-> IF out_of_bounds[a]
                        THEN size[a] + PaddingValue(dim, new_index, size)[a]
                        ELSE new_size[a]]

\* the box of line 245: RegionOfInterest(img, new_size, new_index)
CropBox(dim, start_index, size, pad) ==
    LET new_index == ClampLower(ExpandIndex(start_index, pad), start_index)
        new_size  == ClampUpper(ExpandSize(size, pad), size, new_index, dim)
    IN  [index |-> new_index, size |-> new_size]

\* SimpleITK.RegionOfInterest accepts a region only if it lies inside the image
RegionInside(dim, box) ==
    \A a \in Axes : /\ 0 <= box.index[a]
                    /\ box.size[a] >= 1
                    /\ box.index[a] + box.size[a] <= dim[a]

\* one axis of an input: extent d, and a tight label box (start s, size z)
\* lying inside it
AxisCases ==
    { c \in (1..MaxDim) \X (0..(MaxDim - 1)) \X (1..MaxDim) : c[2] + c[3] <= c[1] }

\* the two worked examples of the design notes, the same on every axis
ExampleInputs ==
    { [dim |-> [a \in Axes |-> 100], start |-> [a \in Axes |-> 2],
       size |-> [a \in Axes |-> 10], pad |-> 5],
      [dim |-> [a \in Axes |-> 20], start |-> [a \in Axes |-> 15],
       size |-> [a \in Axes |-> 3], pad |-> 5] }

BoundedInputs ==
    { [dim   |-> [a \in Axes |-> c[a][1]],
       start |-> [a \in Axes |-> c[a][2]],
       size  |-> [a \in Axes |-> c[a][3]],
       pad   |-> p] : c \in [Axes -> AxisCases], p \in 0..MaxPad }

CropInputs == BoundedInputs \cup ExampleInputs

InitCrop ==
    /\ \E i \in CropInputs :
          /\ img_dim = i.dim
          /\ bbox = [start |-> i.start, size |-> i.size]
          /\ padding = i.pad
    /\ crop_pc = "ready"
    /\ roi = NoBox
    /\ IdleResample

CropImageUsingMask ==
    /\ crop_pc = "ready"
    /\ roi' = CropBox(img_dim, bbox.start, bbox.size, padding)
    /\ crop_pc' = IF RegionInside(img_dim, roi') THEN "done" ELSE "failed"
    /\ UNCHANGED <<img_dim, bbox, padding>>
    /\ UNCHANGED rs_vars

NextCrop == CropImageUsingMask

SpecCrop == InitCrop /\ [][NextCrop]_vars

(***************************************************************************)
(* float64 arithmetic of get_resize_factor / resample_image                *)
(*                                                                         *)
(* numpy divides and multiplies in IEEE-754 double precision, rounding to  *)
(* nearest, ties to even.  Every quotient the code forms is a quotient of  *)
(* two small integers p/q; its double is kept exactly as                   *)
(*      fl(p/q) = (p * 2^exp + err) / (q * 2^exp),   |err| <= q/2          *)
(* where exp is the number of fraction bits of the 53-bit significand and  *)
(* err the signed rounding error in units of 1/(q * 2^exp).  Only          *)
(* remainders modulo 2q are computed, so every number stays small.         *)
(***************************************************************************)

\* significand bits of a float64
MantBits == 53

RECURSIVE Pow2(_)
Pow2(e) == IF e = 0 THEN 1 ELSE 2 * Pow2(e - 1)

RECURSIVE FloorLog2Up(_, _, _)
FloorLog2Up(p, q, t) == IF 2 * q * Pow2(t) <= p THEN FloorLog2Up(p, q, t + 1) ELSE t

RECURSIVE CeilLog2Down(_, _, _)
CeilLog2Down(p, q, s) == IF p * Pow2(s) < q THEN CeilLog2Down(p, q, s + 1) ELSE s

\* the binary exponent t of p/q > 0: 2^t <= p/q < 2^(t+1)
FloorLog2(p, q) == IF p >= q THEN FloorLog2Up(p, q, 0) ELSE -CeilLog2Down(p, q, 1)

\* (x * 2^e) mod m
RECURSIVE MulPow2Mod(_, _, _)
MulPow2Mod(x, e, m) == IF e = 0 THEN x % m ELSE MulPow2Mod((2 * x) % m, e - 1, m)

\* a > b * 2^x for an exponent x of either sign
ExceedsScaled(a, b, x) == IF x >= 0 THEN a > b * Pow2(x) ELSE a * Pow2(-x) > b

\* the double p / q of two integers p >= 0, q > 0 (the "/" of lines 308, 318)
FloatDiv(p, q) ==
    IF p = 0 THEN [num |-> 0, den |-> q, exp |-> 0, err |-> 0]
    ELSE LET exp  == MantBits - 1 - FloorLog2(p, q)
             rem2 == MulPow2Mod(p, exp, 2 * q)
             odd  == rem2 >= q               \* last bit of the truncated significand
             rem  == IF odd THEN rem2 - q ELSE rem2
             up   == 2 * rem > q \/ (2 * rem = q /\ odd)
         IN  [num |-> p, den |-> q, exp |-> exp,
              err |-> IF up THEN q - rem ELSE -rem]

\* The double n * x for an integer n >= 1 and a double x = fl(p/q) (the "*"
\* of lines 311, 349), located on the grid of half-integers:
\*   [lo |-> m, rel |-> 0]  the double is exactly m/2
\*   [lo |-> m, rel |-> 1]  the double lies strictly between m/2 and (m+1)/2
\* The exact product is n*p/q + n*err/(q*2^exp).  If n*p/q is not a multiple
\* of 1/2 it is at least 1/(2q) away from the grid, far more than the two
\* rounding errors, and the double stays in the same cell.  If it is a grid
\* point G, the double is G unless the error carries the product past half
\* the gap to G's neighbouring double (the gap below a power of two is half
\* the gap above it); ties round to G, whose significand is even.
FloatTimesInt(n, x) ==
    IF x.num = 0 THEN [lo |-> 0, rel |-> 0]
    ELSE LET twice  == 2 * n * x.num
             m      == twice \div x.den
             ongrid == twice % x.den = 0
             j      == FloorLog2(m, 2)
             pow2   == IF m = Pow2(j + 1) THEN 1 ELSE 0
             gap    == x.exp + j - MantBits
         IN  IF ~ongrid THEN [lo |-> m, rel |-> 1]
             ELSE IF x.err = 0 THEN [lo |-> m, rel |-> 0]
             ELSE IF x.err > 0
                  THEN IF ExceedsScaled(n * x.err, x.den, gap)
                       THEN [lo |-> m, rel |-> 1] ELSE [lo |-> m, rel |-> 0]
                  ELSE IF ExceedsScaled(n * (-x.err), x.den, gap - pow2)
                       THEN [lo |-> m - 1, rel |-> 1] ELSE [lo |-> m, rel |-> 0]

\* np.round of a located non-negative double: nearest integer, ties to even
NpRound(v) ==
    IF v.rel = 0
    THEN IF v.lo % 2 = 0 THEN v.lo \div 2
         ELSE LET h == (v.lo - 1) \div 2 IN IF h % 2 = 0 THEN h ELSE h + 1
    ELSE IF v.lo % 2 = 0 THEN v.lo \div 2 ELSE (v.lo + 1) \div 2

\* int(x) of a located non-negative double: truncation (line 350)
IntOf(v) == v.lo \div 2

Sign(b) == IF b > 0 THEN 1 ELSE IF b < 0 THEN -1 ELSE 0
Abs(b) == IF b < 0 THEN -b ELSE b

(***************************************************************************)
(* get_resize_factor, lines 304-320                                        *)
(* A factor is [inf, sign, mag]: +infinity, or sign * mag with mag a       *)
(* double as above.  IEEE division, multiplication and rounding are        *)
(* symmetric in the sign, so it is carried beside the magnitude.           *)
(***************************************************************************)

\* ---- explored inputs of one axis: extent, spacing, target spacing ----

\* extents of the input image per axis; 22 is the smallest extent for which
\* spacings up to MaxTarget make (k / n) * n fall below k
Extents == {1, 2, 22}
Spacings == 1..MaxSpacing
Targets == (-1)..MaxTarget
AxisInputs == Extents \X Spacings \X Targets

\* new_shape = np.round(img.shape * (old_spacing / new_spacing)), one axis,
\* new_spacing # 0: the provisional target shape, as a signed integer
RoundedShape(n, old, new) ==
    Sign(new) * NpRound(FloatTimesInt(n, FloatDiv(old, Abs(new))))

\* one axis of get_resize_factor: division by a zero spacing gives inf
\* (numpy warns, it does not raise), and inf survives lines 311-318
AxisResizeFactor(n, old, new) ==
    IF new = 0
    THEN [inf |-> TRUE, sign |-> 1, mag |-> FloatDiv(0, n)]
    ELSE LET new_shape == RoundedShape(n, old, new)
         IN  [inf |-> FALSE, sign |-> Sign(new_shape),
              mag |-> FloatDiv(Abs(new_shape), n)]

\* AxisResizeFactor tabulated once over the explored inputs
ResizeFactorTable ==
    { <<c, AxisResizeFactor(c[1], c[2], c[3])>> : c \in AxisInputs }

AxisFactor(n, old, new) ==
    (CHOOSE e \in ResizeFactorTable : e[1] = <<n, old, new>>)[2]

GetResizeFactor(shape, spacing, target) ==
    [a \in Axes |-> AxisFactor(shape[a], spacing[a], target[a])]

(***************************************************************************)
(* resample_image, lines 336-386                                           *)
(* An array is modelled by its shape; an image by size, spacing, origin    *)
(* and direction.                                                          *)
(***************************************************************************)

Reversed(v) == [a \in Axes |-> v[NumAxes + 1 - a]]

\* SimpleITK.GetArrayFromImage: the array's axes are the image's, reversed
GetArrayFromImage(img) == Reversed(img.size)

\* img = np.transpose(img): reverses the axes (line 343)
Transpose(shape) == Reversed(shape)

\* mutant of TransposeBack: the resampled array is not transposed back
TransposeBackMissing(shape) == shape

\* resampled_img = np.transpose(resampled_img) (line 372)
TransposeBack(shape) == Reversed(shape)

\* SimpleITK.GetImageFromArray: a new image with default geometry
GetImageFromArray(shape) ==
    [size |-> Reversed(shape), spacing |-> Ones, origin |-> Zeros,
     direction |-> IdentityDirection]

\* mutant of CopyMetadata: SetDirection is left out
CopyMetadataNoDirection(out, img, target) ==
    [out EXCEPT !.origin = img.origin, !.spacing = target]

\* SetOrigin / SetDirection / SetSpacing (lines 376-378)
CopyMetadata(out, img, target) ==
    [out EXCEPT !.origin = img.origin,
                !.direction = img.direction,
                !.spacing = target]

\* new_shape = [int(x) for x in resize_factor * img.shape], one axis
\* (lines 349-350); the factor is finite
AxisNewShape(factor, n) == factor.sign * IntOf(FloatTimesInt(n, factor.mag))

\* What the libraries can do with the call once resize is invoked.  With
\* every output extent >= 1 and every spacing > 0 they return.  resize with
\* an extent of 0, GetImageFromArray of an empty array and SetSpacing with a
\* negative spacing raise or pass depending on the library build; a negative
\* extent always raises.
LibraryOutcomes(new_shape, target) ==
    (IF \A a \in Axes : new_shape[a] >= 0 THEN {"returns"} ELSE {})
    \cup (IF \E a \in Axes : new_shape[a] <= 0 \/ target[a] < 0
          THEN {"raises"} ELSE {})

\* ---- inputs ----


Geometries ==
    { [origin |-> Zeros, direction |-> IdentityDirection],
      [origin |-> [a \in Axes |-> -250 * a],
       direction |-> <<-1, 0, 0, 0, -1, 0, 0, 0, 1>>] }

InitResample ==
    /\ \E c \in [Axes -> AxisInputs], g \in Geometries :
          /\ sitk_img = [size |-> [a \in Axes |-> c[a][1]],
                         spacing |-> [a \in Axes |-> c[a][2]],
                         origin |-> g.origin, direction |-> g.direction]
          /\ target_spacing = [a \in Axes |-> c[a][3]]
    /\ rs_pc = "ready"
    /\ kernel = NotCalled
    /\ error = "none"
    /\ sitk_out = NoImage
    /\ IdleCrop

ResampleImage ==
    /\ rs_pc = "ready"
    /\ LET img == Transpose(GetArrayFromImage(sitk_img))
           resize_factor == GetResizeFactor(img, sitk_img.spacing, target_spacing)
       IN  IF \E a \in Axes : resize_factor[a].inf
           THEN \* int(inf) raises OverflowError at line 350
                /\ rs_pc' = "failed"
                /\ error' = "OverflowError"
                /\ UNCHANGED <<kernel, sitk_out>>
           ELSE LET new_shape == [a \in Axes |-> AxisNewShape(resize_factor[a], img[a])]
                IN  /\ kernel' = [called |-> TRUE, output_shape |-> new_shape]
                    /\ \E outcome \in LibraryOutcomes(kernel'.output_shape, target_spacing) :
                          IF outcome = "returns"
                          THEN /\ rs_pc' = "done"
                               /\ error' = "none"
                               /\ sitk_out' = CopyMetadata(
                                     GetImageFromArray(TransposeBack(kernel'.output_shape)),
                                     sitk_img, target_spacing)
                          ELSE /\ rs_pc' = "failed"
                               /\ error' = "LibraryError"
                               /\ sitk_out' = NoImage
    /\ UNCHANGED <<sitk_img, target_spacing>>
    /\ UNCHANGED crop_vars

NextResample == ResampleImage

SpecResample == InitResample /\ [][NextResample]_vars

(***************************************************************************)
(* Properties of crop_image_using_mask                                     *)
(***************************************************************************)

Cropped == crop_pc \in {"done", "failed"}

TightEnd(a) == bbox.start[a] + bbox.size[a]
FinalEnd(a) == roi.index[a] + roi.size[a]

\* C2: for every tight box inside the image and every padding >= 0, the box
\* handed to the region extraction satisfies 0 <= start and
\* start + size <= image extent on every axis.
C2_BoxInsideImage ==
    Cropped => \A a \in Axes : 0 <= roi.index[a] /\ FinalEnd(a) <= img_dim[a]

\* a crop where one axis needed the lower clamp and one the upper clamp
C2_Witness ==
    /\ crop_pc = "done"
    /\ \E a \in Axes : bbox.start[a] - padding < 0
    /\ \E a \in Axes : roi.index[a] + bbox.size[a] + padding > img_dim[a]

\* C3 as stated: wherever tight start + tight size + padding > extent, the
\* final size equals extent - tight start and the box stays inside the extent
\* (extent 20, start 15, size 3, padding 5 gives size 5).
C3_AsStated ==
    Cropped => \A a \in Axes :
        TightEnd(a) + padding > img_dim[a] =>
            /\ roi.size[a] = img_dim[a] - bbox.start[a]
            /\ FinalEnd(a) <= img_dim[a]

\* C3 amended: wherever tight start + tight size + padding > extent, the
\* final box stays inside the extent; its size equals extent - tight start
\* only where the lower padding was dropped (tight start - padding <= 0);
\* where the start was lowered the box is (tight start - padding,
\* tight size + padding) and ends at the tight end.  Extent 20, start 15,
\* size 3, padding 5 gives start 10, size 8.
C3_UpperClamp ==
    Cropped => \A a \in Axes :
        TightEnd(a) + padding > img_dim[a] =>
            /\ FinalEnd(a) <= img_dim[a]
            /\ IF bbox.start[a] - padding <= 0
               THEN /\ roi.index[a] = bbox.start[a]
                    /\ roi.size[a] = img_dim[a] - bbox.start[a]
               ELSE /\ roi.index[a] = bbox.start[a] - padding
                    /\ roi.size[a] = bbox.size[a] + padding
                    /\ FinalEnd(a) = TightEnd(a)
            /\ (img_dim[a] = 20 /\ bbox.start[a] = 15 /\ bbox.size[a] = 3 /\ padding = 5)
                  => (roi.index[a] = 10 /\ roi.size[a] = 8)

\* the worked example: extent 20, tight start 15, size 3, padding 5
C3_Witness ==
    /\ crop_pc = "done"
    /\ \A a \in Axes : /\ img_dim[a] = 20 /\ bbox.start[a] = 15
                       /\ bbox.size[a] = 3 /\ roi.size[a] = 8
    /\ padding = 5

\* C8: on any axis where tight start - padding <= 0 the final start is the
\* tight start, and if also tight start + tight size + padding < extent the
\* final size is tight size + padding (extent 100, start 2, size 10,
\* padding 5 gives start 2, size 15).
C8_LowerClamp ==
    Cropped => \A a \in Axes :
        bbox.start[a] - padding <= 0 =>
            /\ roi.index[a] = bbox.start[a]
            /\ TightEnd(a) + padding < img_dim[a] =>
                  roi.size[a] = bbox.size[a] + padding
            /\ (img_dim[a] = 100 /\ bbox.start[a] = 2 /\ bbox.size[a] = 10 /\ padding = 5)
                  => (roi.index[a] = 2 /\ roi.size[a] = 15)

\* the worked example: extent 100, tight start 2, size 10, padding 5
C8_Witness ==
    /\ crop_pc = "done"
    /\ \A a \in Axes : /\ img_dim[a] = 100 /\ bbox.start[a] = 2
                       /\ bbox.size[a] = 10 /\ roi.size[a] = 15
    /\ padding = 5

\* C9: the final box contains the whole tight box on every axis.
C9_ContainsTightBox ==
    Cropped => \A a \in Axes :
        /\ roi.index[a] <= bbox.start[a]
        /\ FinalEnd(a) >= TightEnd(a)

\* a crop with the start lowered on one axis and the size clamped on another
C9_Witness ==
    /\ crop_pc = "done"
    /\ padding > 0
    /\ \E a \in Axes : roi.index[a] < bbox.start[a]
    /\ \E a \in Axes : /\ roi.index[a] = bbox.start[a]
                       /\ TightEnd(a) < img_dim[a]
                       /\ FinalEnd(a) = img_dim[a]

\* C10: with padding > 0 the final box is padded on at most one side per
\* axis (final start = tight start, or final end = tight end); where
\* tight start - padding > 0 the box is
\* [tight start - padding, tight start + tight size).
C10_PaddedOnOneSide ==
    (Cropped /\ padding > 0) => \A a \in Axes :
        /\ roi.index[a] = bbox.start[a] \/ FinalEnd(a) = TightEnd(a)
        /\ bbox.start[a] - padding > 0 =>
              /\ roi.index[a] = bbox.start[a] - padding
              /\ FinalEnd(a) = TightEnd(a)

\* a crop with room above the tight box that still gets no padding above
C10_Witness ==
    /\ crop_pc = "done"
    /\ padding > 0
    /\ \E a \in Axes : /\ bbox.start[a] - padding > 0
                       /\ TightEnd(a) + padding <= img_dim[a]
                       /\ FinalEnd(a) = TightEnd(a)

(***************************************************************************)
(* Properties of get_resize_factor / resample_image                        *)
(***************************************************************************)

Resampled == rs_pc \in {"done", "failed"}

ValidTarget == \A a \in Axes : target_spacing[a] > 0

\* round(num / den) in exact rational arithmetic, ties to even (num >= 0,
\* den > 0): the reference the computed shapes are compared with
RoundRatio(num, den) ==
    LET q == num \div den
        r == num % den
    IN  IF 2 * r < den THEN q
        ELSE IF 2 * r > den THEN q + 1
        ELSE IF q % 2 = 0 THEN q ELSE q + 1

\* the shape the code computes for one axis from its extent, spacing and
\* target spacing (lines 347-350)
AxisShape(n, old, new) == AxisNewShape(AxisFactor(n, old, new), n)

\* C1 as stated: for positive spacings the output shape handed to the
\* interpolation kernel equals round(n * s_old / s_new) on every axis.
C1_AsStated ==
    (Resampled /\ ValidTarget) =>
        /\ kernel.called
        /\ \A a \in Axes :
              kernel.output_shape[a] =
                  RoundRatio(sitk_img.size[a] * sitk_img.spacing[a], target_spacing[a])

\* C4 as stated: a target spacing with a zero or negative entry fails before
\* the interpolation kernel is invoked.
C4_AsStated ==
    (Resampled /\ \E a \in Axes : target_spacing[a] <= 0) =>
        (rs_pc = "failed" /\ ~kernel.called)

\* C5 as stated, for positive spacings: when rounding gives a target shape of
\* zero on some axis the call is rejected: the kernel is not invoked and no
\* image is returned.
C5_AsStated ==
    (/\ Resampled
     /\ ValidTarget
     /\ \E a \in Axes :
           RoundRatio(sitk_img.size[a] * sitk_img.spacing[a], target_spacing[a]) <= 0)
    => (rs_pc = "failed" /\ ~kernel.called /\ sitk_out = NoImage)

\* C6: the axis reordering is inverted exactly and axis i of the reordered
\* array is matched to spacing entry i: the returned image's extent along
\* native axis i is the kernel's output extent i, which is the shape computed
\* from extent i, spacing i and target spacing i; resampling to the image's
\* own spacing returns the input's size on every axis.
C6_AxesRoundTrip ==
    rs_pc = "done" =>
        /\ \A a \in Axes :
              /\ sitk_out.size[a] = kernel.output_shape[a]
              /\ sitk_out.size[a] =
                    AxisShape(sitk_img.size[a], sitk_img.spacing[a], target_spacing[a])
        /\ target_spacing = sitk_img.spacing => sitk_out.size = sitk_img.size

\* an identity resampling of an image with pairwise different extents and
\* anisotropic spacing
C6_Witness ==
    /\ rs_pc = "done"
    /\ target_spacing = sitk_img.spacing
    /\ sitk_img.spacing[1] # sitk_img.spacing[3]
    /\ \A a, b \in Axes : a # b => sitk_img.size[a] # sitk_img.size[b]
    /\ sitk_out.size = sitk_img.size

\* C7: the returned image has the input's origin and direction and exactly
\* the caller's target spacing, and the call leaves the input image (and the
\* caller's target spacing) as they were.
C7_MetadataPreserved ==
    [][rs_pc' = "done" =>
          /\ sitk_out'.origin = sitk_img.origin
          /\ sitk_out'.direction = sitk_img.direction
          /\ sitk_out'.spacing = target_spacing
          /\ sitk_img' = sitk_img
          /\ target_spacing' = target_spacing]_vars

\* a resampling of an image with non-default origin and direction to a
\* spacing the rounded shape does not reproduce exactly
C7_Witness ==
    /\ rs_pc = "done"
    /\ ValidTarget
    /\ sitk_img.origin # Zeros
    /\ sitk_img.direction # IdentityDirection
    /\ sitk_out.origin = sitk_img.origin
    /\ \A a \in Axes : sitk_out.size[a] >= 1
    /\ \E a \in Axes :
          sitk_out.size[a] * target_spacing[a] # sitk_img.size[a] * sitk_img.spacing[a]

====
